---- MODULE Spec2Model ----
(***************************************************************************)
(* The repair-order pipeline of rht_data_engineer/run_pipeline.py:         *)
(* read the *.xml files of a directory in sorted order, parse each into a  *)
(* RepairOrder and its RepairOrderDetail list, keep per order_id the       *)
(* report with the strictly greatest timestamp, then create/reset the two  *)
(* SQLite tables and bulk-insert headers followed by details.              *)
(*                                                                         *)
(* A Python str that the code converts or orders (order_id, cost,          *)
(* date_time, quantity, file names) is a sequence of one-character         *)
(* strings; a str the code only stores (status, technician, part name) is  *)
(* a TLA+ string.  The texts modelled are made of digits, sign, point,      *)
(* underscore, space and the separators of the timestamp format, plus      *)
(* letters that make a text non-numeric; exponent, "inf" and "nan" forms   *)
(* of float() are outside them.                                            *)
(***************************************************************************)
EXTENDS Integers, Sequences, FiniteSets, Bags, TLC

\* ------------------------------------------------------------------------
\* Bounds of the model
\* ------------------------------------------------------------------------

\* greatest number of *.xml files in the data directory
MaxFiles == 3

\* ------------------------------------------------------------------------
\* Python's text conversions: int(), float(), datetime.strptime()
\* ------------------------------------------------------------------------

Digits == {"0", "1", "2", "3", "4", "5", "6", "7", "8", "9"}

DigitVal ==
    "0" :> 0 @@ "1" :> 1 @@ "2" :> 2 @@ "3" :> 3 @@ "4" :> 4 @@
    "5" :> 5 @@ "6" :> 6 @@ "7" :> 7 @@ "8" :> 8 @@ "9" :> 9

\* str.strip() as int() and float() apply it (the space is the only
\* whitespace character of the texts modelled)
RECURSIVE LStrip(_)
LStrip(s) == IF s # <<>> /\ Head(s) = " " THEN LStrip(Tail(s)) ELSE s

RECURSIVE RStrip(_)
RStrip(s) ==
    IF s # <<>> /\ s[Len(s)] = " " THEN RStrip(SubSeq(s, 1, Len(s) - 1)) ELSE s

Strip(s) == RStrip(LStrip(s))

\* digitpart ::= digit (["_"] digit)*
IsDigitPart(s) ==
    /\ s # <<>>
    /\ \A i \in 1..Len(s) : s[i] \in Digits \cup {"_"}
    /\ s[1] \in Digits
    /\ s[Len(s)] \in Digits
    /\ \A i \in 1..(Len(s) - 1) : ~(s[i] = "_" /\ s[i + 1] = "_")

\* the decimal value of a digitpart (underscores skipped), most significant
\* digit first
RECURSIVE DecValue(_, _)
DecValue(s, acc) ==
    IF s = <<>> THEN acc
    ELSE IF Head(s) = "_" THEN DecValue(Tail(s), acc)
    ELSE DecValue(Tail(s), 10 * acc + DigitVal[Head(s)])

\* the number of digits of a digitpart
RECURSIVE DigitCount(_)
DigitCount(s) ==
    IF s = <<>> THEN 0
    ELSE (IF Head(s) = "_" THEN 0 ELSE 1) + DigitCount(Tail(s))

HasSign(t) == t # <<>> /\ t[1] \in {"+", "-"}

Unsigned(t) == IF HasSign(t) THEN Tail(t) ELSE t

\* int(text): ok is FALSE where Python raises ValueError
PyInt(s) ==
    LET t == Strip(s)
        body == Unsigned(t)
        ok == IsDigitPart(body)
        v == IF ok THEN DecValue(body, 0) ELSE 0
    IN [ok |-> ok, val |-> IF HasSign(t) /\ t[1] = "-" THEN 0 - v ELSE v]

\* position of the first element of s that is in cs, or 0
RECURSIVE FirstIn(_, _, _)
FirstIn(s, cs, i) ==
    IF i > Len(s) THEN 0
    ELSE IF s[i] \in cs THEN i
    ELSE FirstIn(s, cs, i + 1)

\* a float as the decimal it is read from: m * 10^(-e), m not divisible by
\* ten unless e = 0 (equal floats of short decimals have equal pairs)
RECURSIVE Normalise(_, _)
Normalise(m, e) ==
    IF e > 0 /\ m % 10 = 0 THEN Normalise(m \div 10, e - 1)
    ELSE [m |-> m, e |-> e]

\* float(text) for the decimal forms [sign] digitpart ["." [digitpart]] and
\* [sign] "." digitpart; ok is FALSE where Python raises ValueError
PyFloat(s) ==
    LET t == Strip(s)
        body == Unsigned(t)
        dot == FirstIn(body, {"."}, 1)
        ip == IF dot = 0 THEN body ELSE SubSeq(body, 1, dot - 1)
        fp == IF dot = 0 THEN <<>> ELSE SubSeq(body, dot + 1, Len(body))
        ok == /\ ip = <<>> \/ IsDigitPart(ip)
              /\ fp = <<>> \/ IsDigitPart(fp)
              /\ ip # <<>> \/ fp # <<>>
        mag == IF ok THEN Normalise(DecValue(ip \o fp, 0), DigitCount(fp))
               ELSE [m |-> 0, e |-> 0]
    IN [ok |-> ok,
        val |-> IF HasSign(t) /\ t[1] = "-"
                THEN [m |-> 0 - mag.m, e |-> mag.e] ELSE mag]

\* the literal characters of TIMESTAMP_FORMAT between its directives; the
\* format is matched ignoring case
TIMESTAMP_FORMAT == << {"-"}, {"-"}, {"T", "t"}, {":"}, {":"} >>

\* the fields of s between successive separators, or << >> when a separator
\* is missing
RECURSIVE SplitFields(_, _)
SplitFields(s, seps) ==
    IF seps = <<>> THEN <<s>>
    ELSE LET p == FirstIn(s, Head(seps), 1)
             rest == SplitFields(SubSeq(s, p + 1, Len(s)), Tail(seps))
         IN IF p = 0 \/ rest = <<>> THEN <<>>
            ELSE <<SubSeq(s, 1, p - 1)>> \o rest

AllDigits(s) == \A i \in 1..Len(s) : s[i] \in Digits

\* one or two digits with a value in lo..hi
DigitField(s, lo, hi) ==
    /\ Len(s) \in {1, 2}
    /\ AllDigits(s)
    /\ DecValue(s, 0) \in lo..hi

\* %Y  \d\d\d\d
MatchY(s) == Len(s) = 4 /\ AllDigits(s)
\* %m  1[0-2]|0[1-9]|[1-9]
MatchMonth(s) == DigitField(s, 1, 12)
\* %d  3[0-1]|[1-2]\d|0[1-9]|[1-9]| [1-9]
MatchDay(s) ==
    \/ DigitField(s, 1, 31)
    \/ Len(s) = 2 /\ s[1] = " " /\ s[2] \in Digits \ {"0"}
\* %H  2[0-3]|[0-1]\d|\d
MatchHour(s) == DigitField(s, 0, 23)
\* %M  [0-5]\d|\d
MatchMinute(s) == DigitField(s, 0, 59)
\* %S  6[0-1]|[0-5]\d|\d
MatchSecond(s) == DigitField(s, 0, 61)

IsLeap(y) == y % 4 = 0 /\ (y % 100 # 0 \/ y % 400 = 0)

DaysInMonth(y, m) ==
    IF m = 2 THEN (IF IsLeap(y) THEN 29 ELSE 28)
    ELSE IF m \in {4, 6, 9, 11} THEN 30 ELSE 31

\* datetime.strptime(text, TIMESTAMP_FORMAT): a datetime is the tuple
\* <<year, month, day, hour, minute, second>>; ok is FALSE where Python
\* raises ValueError (no match, unconverted data, or a date or time that
\* datetime() rejects)
Strptime(s) ==
    LET f == SplitFields(s, TIMESTAMP_FORMAT)
        matched == /\ f # <<>>
                   /\ MatchY(f[1]) /\ MatchMonth(f[2]) /\ MatchDay(f[3])
                   /\ MatchHour(f[4]) /\ MatchMinute(f[5]) /\ MatchSecond(f[6])
        dt == IF matched
              THEN [i \in 1..6 |-> DecValue(LStrip(f[i]), 0)]
              ELSE <<0, 0, 0, 0, 0, 0>>
        ok == /\ matched
              /\ dt[1] >= 1
              /\ dt[3] <= DaysInMonth(dt[1], dt[2])
              /\ dt[6] <= 59
    IN [ok |-> ok, val |-> IF ok THEN dt ELSE <<0, 0, 0, 0, 0, 0>>]

\* datetime.__gt__ on naive datetimes: lexicographic on the six fields
RECURSIVE TupleGT(_, _, _)
TupleGT(a, b, i) ==
    IF i > Len(a) THEN FALSE
    ELSE IF a[i] # b[i] THEN a[i] > b[i]
    ELSE TupleGT(a, b, i + 1)

DatetimeGT(a, b) == TupleGT(a, b, 1)

\* ------------------------------------------------------------------------
\* What XMLtoDict.parse returns for a file: nested dicts whose leaves are
\* str or None.  A value is [k, s]: k = "str" with the text s, k = "none"
\* for an empty element (None), k = "absent" for a key the dict lacks.
\* ------------------------------------------------------------------------

Txt(s) == [k |-> "str", s |-> s]
NoneTxt == [k |-> "none", s |-> <<>>]
NoTxt == [k |-> "absent", s |-> <<>>]

Str(s) == [k |-> "str", s |-> s]
NoneStr == [k |-> "none", s |-> ""]
NoStr == [k |-> "absent", s |-> ""]

\* a <part name=".." quantity=".."/> element: the dict of its attributes
PartElem(name, quantity) == [name |-> name, quantity |-> quantity]

NoPart == PartElem(NoStr, NoTxt)

\* the value under "part": a dict for one <part>, a list of dicts for several
OnePart(p) == [k |-> "dict", one |-> p, many |-> <<>>]
ManyParts(ps) == [k |-> "list", one |-> NoPart, many |-> ps]
NonePart == [k |-> "none", one |-> NoPart, many |-> <<>>]
NoPartKey == [k |-> "absent", one |-> NoPart, many |-> <<>>]

RepairParts(part) == [k |-> "dict", part |-> part]
NoneRepairParts == [k |-> "none", part |-> NoPartKey]
NoRepairParts == [k |-> "absent", part |-> NoPartKey]

RepairDetails(technician, repair_parts) ==
    [k |-> "dict", technician |-> technician, repair_parts |-> repair_parts]
NoRepairDetails ==
    [k |-> "absent", technician |-> NoStr, repair_parts |-> NoRepairParts]

\* a file whose root element is <event>
Event(order_id, date_time, status, cost, repair_details) ==
    [root |-> "event", order_id |-> order_id, date_time |-> date_time,
     status |-> status, cost |-> cost, repair_details |-> repair_details]

\* a file that is not well-formed XML: XMLtoDict.parse raises
NotXml ==
    [root |-> "invalid", order_id |-> NoTxt, date_time |-> NoTxt,
     status |-> NoStr, cost |-> NoTxt, repair_details |-> NoRepairDetails]

\* parse_xml(content): the dict of the file, ok FALSE where the parser raises
parse_xml(content) == [ok |-> content.root # "invalid", dict |-> content]

\* ------------------------------------------------------------------------
\* The parse block of the main loop (the try of lines 161-178)
\* ------------------------------------------------------------------------

Status == {"Completed", "In Progress", "Received", "Reopened"}

RepairOrderDetail(order_id, part_name, quantity) ==
    [order_id |-> order_id, part_name |-> part_name, quantity |-> quantity]

RepairOrder(order_id, timestamp, status, cost, technician) ==
    [order_id |-> order_id, timestamp |-> timestamp, status |-> status,
     cost |-> cost, technician |-> technician]

\* if isinstance(parts, dict): parts = [parts]
PartsList(parts) == IF parts.k = "dict" THEN <<parts.one>> ELSE parts.many

\* order_id = int(order_raw[Tag.ORDER_ID])
OrderIdOk(ev) == ev.order_id.k = "str" /\ PyInt(ev.order_id.s).ok

\* status = order_raw[Tag.STATUS]
StatusOk(ev) == ev.status.k # "absent"

\* CostOk without the conversion
CostOkUnconverted(ev) == ev.cost.k = "str"

\* cost = float(order_raw[Tag.COST])
CostOk(ev) == ev.cost.k = "str" /\ PyFloat(ev.cost.s).ok

\* technician = order_raw[Tag.REPAIR_DETAILS][Tag.TECHNICIAN]
TechnicianOk(ev) ==
    ev.repair_details.k = "dict" /\ ev.repair_details.technician.k # "absent"

\* parts = order_raw[Tag.REPAIR_DETAILS][Tag.REPAIR_PARTS][Tag.PART] and
\* the loop over it: part[Tag.NAME], part[Tag.QUANTITY]
PartsOk(ev) ==
    LET rp == ev.repair_details.repair_parts
    IN /\ ev.repair_details.k = "dict"
       /\ rp.k = "dict"
       /\ rp.part.k \in {"dict", "list"}
       /\ \A i \in 1..Len(PartsList(rp.part)) :
              /\ PartsList(rp.part)[i].name.k # "absent"
              /\ PartsList(rp.part)[i].quantity.k # "absent"

\* timestamp_as_datetime = datetime.strptime(order_raw[Tag.DATE_TIME], ..)
TimestampOk(ev) == ev.date_time.k = "str" /\ Strptime(ev.date_time.s).ok

\* the quantity a RepairOrderDetail is built with: quantity=part[Tag.QUANTITY]
PartQuantity(part) == part.quantity

\* the status a RepairOrder is built with: status = order_raw[Tag.STATUS]
OrderStatus(ev) == ev.status

\* temp_list: one RepairOrderDetail per part, in document order
TempList(ev, order_id) ==
    LET parts == PartsList(ev.repair_details.repair_parts.part)
    IN [i \in 1..Len(parts) |->
            RepairOrderDetail(order_id, parts[i].name, PartQuantity(parts[i]))]

\* the whole try block: ok is FALSE where any statement raises (the except
\* clause then skips the file)
ParseEvent(content) ==
    LET x == parse_xml(content)
        ev == x.dict
        ok == /\ x.ok
              /\ ev.root = "event"
              /\ OrderIdOk(ev)
              /\ StatusOk(ev)
              /\ CostOk(ev)
              /\ TechnicianOk(ev)
              /\ PartsOk(ev)
              /\ TimestampOk(ev)
        order_id == PyInt(ev.order_id.s).val
    IN IF ok
       THEN [ok |-> TRUE,
             order |-> RepairOrder(order_id, Strptime(ev.date_time.s).val,
                                   OrderStatus(ev), PyFloat(ev.cost.s).val,
                                   ev.repair_details.technician),
             temp_list |-> TempList(ev, order_id)]
       ELSE [ok |-> FALSE,
             order |-> RepairOrder(0, <<0, 0, 0, 0, 0, 0>>, NoStr,
                                   [m |-> 0, e |-> 0], NoStr),
             temp_list |-> <<>>]

\* ------------------------------------------------------------------------
\* The merge step of the main loop (lines 182-196)
\* ------------------------------------------------------------------------

\* datetime(1, 1, 1)  # Earliest possible date
EarliestDate == <<1, 1, 1, 0, 0, 0>>

\* a Python dict: its items <<key, value>> in insertion order
EmptyDict == <<>>

Keys(dict) == {dict[i][1] : i \in DOMAIN dict}

\* dict[key], for a key of the dict
Get(dict, key) == dict[CHOOSE i \in DOMAIN dict : dict[i][1] = key][2]

\* dict.values()
Values(dict) == [i \in DOMAIN dict |-> dict[i][2]]

\* dict[key] = value: a present key keeps its place, a new key goes last
DictSet(dict, key, value) ==
    IF key \in Keys(dict)
    THEN [i \in DOMAIN dict |->
             IF dict[i][1] = key THEN <<key, value>> ELSE dict[i]]
    ELSE Append(dict, <<key, value>>)

ExistingTimestamp(orders, order_id) ==
    IF order_id \in Keys(orders) THEN Get(orders, order_id).timestamp
    ELSE EarliestDate

\* Wins by >= in place of >
WinsOrTies(orders, order) ==
    ~DatetimeGT(ExistingTimestamp(orders, order.order_id), order.timestamp)

\* Wins with the stored timestamp never looked up
WinsOverEarliest(orders, order) == DatetimeGT(order.timestamp, EarliestDate)

\* if timestamp_as_datetime > existing_timestamp
Wins(orders, order) ==
    DatetimeGT(order.timestamp, ExistingTimestamp(orders, order.order_id))

\* repair_order_dict after one parsed event
MergeOrder(orders, parsed) ==
    IF Wins(orders, parsed.order)
    THEN DictSet(orders, parsed.order.order_id, parsed.order)
    ELSE orders

\* MergeDetail adding the new lines to the stored ones
MergeDetailExtend(orders, details, parsed) ==
    IF Wins(orders, parsed.order)
    THEN DictSet(details, parsed.order.order_id,
                 (IF parsed.order.order_id \in Keys(details)
                  THEN Get(details, parsed.order.order_id) ELSE <<>>)
                     \o parsed.temp_list)
    ELSE details

\* MergeDetail with the assignment outside the comparison
MergeDetailUnconditional(orders, details, parsed) ==
    DictSet(details, parsed.order.order_id, parsed.temp_list)

\* repair_order_detail_dict after one parsed event
MergeDetail(orders, details, parsed) ==
    IF Wins(orders, parsed.order)
    THEN DictSet(details, parsed.order.order_id, parsed.temp_list)
    ELSE details

\* ------------------------------------------------------------------------
\* read_files_from_dir (lines 67-82)
\* ------------------------------------------------------------------------

\* ord() of the characters that file names are made of
CodePoint ==
    "." :> 46 @@ "0" :> 48 @@ "1" :> 49 @@ "9" :> 57 @@ "B" :> 66 @@
    "a" :> 97 @@ "b" :> 98 @@ "l" :> 108 @@ "m" :> 109 @@ "t" :> 116 @@
    "x" :> 120

\* str.__lt__: lexicographic by code point, a proper prefix first
RECURSIVE TextLT(_, _)
TextLT(a, b) ==
    IF b = <<>> THEN FALSE
    ELSE IF a = <<>> THEN TRUE
    ELSE IF Head(a) # Head(b) THEN CodePoint[Head(a)] < CodePoint[Head(b)]
    ELSE TextLT(Tail(a), Tail(b))

\* the pattern of folder.glob("*.xml")
XmlSuffix == <<".", "x", "m", "l">>

\* fnmatch of a file name against "*.xml"
MatchesGlob(name) ==
    /\ Len(name) >= Len(XmlSuffix)
    /\ SubSeq(name, Len(name) - Len(XmlSuffix) + 1, Len(name)) = XmlSuffix

\* folder.glob("*.xml"): the matching names, in no particular order
Glob(folder) == {name \in DOMAIN folder : MatchesGlob(name)}

\* sorted(paths, reverse=True)
RECURSIVE SortedDescending(_)
SortedDescending(names) ==
    IF names = {} THEN <<>>
    ELSE LET greatest == CHOOSE n \in names :
                             \A other \in names \ {n} : TextLT(other, n)
         IN <<greatest>> \o SortedDescending(names \ {greatest})

\* sorted(paths): ascending
RECURSIVE Sorted(_)
Sorted(names) ==
    IF names = {} THEN <<>>
    ELSE LET least == CHOOSE n \in names :
                          \A other \in names \ {n} : TextLT(n, other)
         IN <<least>> \o Sorted(names \ {least})

\* a folder is a function from the names of its files to their contents;
\* the result is the content of each *.xml file, in sorted order of name
read_files_from_dir(folder) ==
    LET file_list == Sorted(Glob(folder))
    IN [i \in 1..Len(file_list) |-> folder[file_list[i]]]

\* ------------------------------------------------------------------------
\* The texts and documents the data directory is filled from
\* ------------------------------------------------------------------------

Id104 == <<"1", "0", "4">>
Id0104 == <<"0", "1", "0", "4">>
Id200 == <<"2", "0", "0">>

Aug11 == <<"2", "0", "2", "3", "-", "0", "8", "-", "1", "1", "T", "1", "2", ":", "0", "0", ":", "0", "0">>
Aug11Short == <<"2", "0", "2", "3", "-", "8", "-", "1", "1", "T", "1", "2", ":", "0", ":", "0">>
Aug12 == <<"2", "0", "2", "3", "-", "0", "8", "-", "1", "2", "T", "0", "9", ":", "0", "0", ":", "0", "0">>
YearOne == <<"0", "0", "0", "1", "-", "0", "1", "-", "0", "1", "T", "0", "0", ":", "0", "0", ":", "0", "0">>
Aug12NoT == <<"2", "0", "2", "3", "-", "0", "8", "-", "1", "2", " ", "0", "9", ":", "0", "0", ":", "0", "0">>

Cost110 == <<"1", "1", "0", ".", "0", "0">>
Cost95 == <<"9", "5", ".", "5">>
CostWord == <<"f", "r", "e", "e">>

Qty1 == <<"1">>
Qty2 == <<"2">>
QtyWord == <<"t", "w", "o">>

Tire(q) == PartElem(Str("Tire"), Txt(q))
BrakeFluid(q) == PartElem(Str("Brake Fluid"), Txt(q))

\* the document of tests.py (get_data): order 104, two parts
DocA ==
    Event(Txt(Id104), Txt(Aug11), Str("Completed"), Txt(Cost110),
          RepairDetails(Str("Robert White"),
              RepairParts(ManyParts(<<Tire(Qty2), BrakeFluid(Qty1)>>))))

\* a later report of order 104 with a single part
DocB ==
    Event(Txt(Id104), Txt(Aug12), Str("Reopened"), Txt(Cost95),
          RepairDetails(Str("Ann Lee"), RepairParts(OnePart(Tire(Qty1)))))

\* order 104 again, the same instant as DocA written differently
DocTie ==
    Event(Txt(Id0104), Txt(Aug11Short), Str("In Progress"), Txt(Cost95),
          RepairDetails(Str("Ann Lee"), RepairParts(OnePart(BrakeFluid(Qty2)))))

\* another order
DocOther ==
    Event(Txt(Id200), Txt(Aug11), Str("Received"), Txt(Cost95),
          RepairDetails(NoneStr, RepairParts(OnePart(Tire(Qty2)))))

\* a report dated 0001-01-01T00:00:00
DocYearOne ==
    Event(Txt(Id200), Txt(YearOne), Str("Received"), Txt(Cost110),
          RepairDetails(Str("Ann Lee"), RepairParts(OnePart(Tire(Qty1)))))

\* a status outside the Status enumeration
DocBadStatus ==
    Event(Txt(Id200), Txt(Aug12), Str("Cancelled"), Txt(Cost110),
          RepairDetails(Str("Ann Lee"), RepairParts(OnePart(Tire(Qty1)))))

\* a quantity that is not integer-valued text
DocBadQuantity ==
    Event(Txt(Id200), Txt(Aug12), Str("Completed"), Txt(Cost110),
          RepairDetails(Str("Ann Lee"), RepairParts(OnePart(Tire(QtyWord)))))

\* the same part name twice
DocDupPart ==
    Event(Txt(Id200), Txt(Aug12), Str("Completed"), Txt(Cost95),
          RepairDetails(Str("Ann Lee"),
              RepairParts(ManyParts(<<Tire(Qty2), Tire(Qty1)>>))))

\* documents that the parse block rejects
DocNoOrderId ==
    Event(NoTxt, Txt(Aug12), Str("Completed"), Txt(Cost110),
          RepairDetails(Str("Ann Lee"), RepairParts(OnePart(Tire(Qty1)))))

DocBadCost ==
    Event(Txt(Id104), Txt(Aug12), Str("Completed"), Txt(CostWord),
          RepairDetails(Str("Ann Lee"), RepairParts(OnePart(Tire(Qty1)))))

DocBadTimestamp ==
    Event(Txt(Id104), Txt(Aug12NoT), Str("Completed"), Txt(Cost110),
          RepairDetails(Str("Ann Lee"), RepairParts(OnePart(Tire(Qty1)))))

DocNoTechnician ==
    Event(Txt(Id104), Txt(Aug12), Str("Completed"), Txt(Cost110),
          RepairDetails(NoStr, RepairParts(OnePart(Tire(Qty1)))))

DocNoParts ==
    Event(Txt(Id104), Txt(Aug12), Str("Completed"), Txt(Cost110),
          RepairDetails(Str("Ann Lee"), NoneRepairParts))

DocPartNoName ==
    Event(Txt(Id104), Txt(Aug12), Str("Completed"), Txt(Cost110),
          RepairDetails(Str("Ann Lee"),
              RepairParts(ManyParts(<<Tire(Qty1), PartElem(NoStr, Txt(Qty1))>>))))

Documents ==
    {DocA, DocB, DocTie, DocOther, DocYearOne, DocBadStatus, DocBadQuantity,
     DocDupPart, DocNoOrderId, DocBadCost, DocBadTimestamp, DocNoTechnician,
     DocNoParts, DocPartNoName, NotXml}

XmlNames ==
    {<<"1", "0", ".", "x", "m", "l">>,
     <<"9", ".", "x", "m", "l">>,
     <<"B", ".", "x", "m", "l">>,
     <<"a", ".", "x", "m", "l">>}

OtherNames ==
    {<<"a", ".", "t", "x", "t">>,
     <<"b", "x", "m", "l">>}

\* a folder --data-dir may name: the *.xml files xmls, holding the documents
\* that contents gives, and the other files others
Folder(xmls, others, contents) ==
    [name \in xmls \cup others |->
        IF name \in xmls THEN contents[name] ELSE DocB]

\* ------------------------------------------------------------------------
\* The data frames and the SQLite store (lines 95-131 and 203-229)
\* ------------------------------------------------------------------------

\* repair_order_df: one record per value of repair_order_dict
OrderFrame(orders) == Values(orders)

\* repair_order_detail_list: the line items of every value of
\* repair_order_detail_dict, one after the other
RECURSIVE Flatten(_)
Flatten(lists) ==
    IF lists = <<>> THEN <<>> ELSE Head(lists) \o Flatten(Tail(lists))

DetailFrame(details) == Flatten(Values(details))

DigitChar == <<"0", "1", "2", "3", "4", "5", "6", "7", "8", "9">>

\* the decimal digits of n, zero-padded to width w
RECURSIVE Padded(_, _)
Padded(n, w) ==
    IF w = 0 THEN <<>>
    ELSE Append(Padded(n \div 10, w - 1), DigitChar[(n % 10) + 1])

\* datetime.isoformat(" "), the text a datetime is bound to a statement as
IsoFormat(dt) ==
    Padded(dt[1], 4) \o <<"-">> \o Padded(dt[2], 2) \o <<"-">>
        \o Padded(dt[3], 2) \o <<" ">> \o Padded(dt[4], 2) \o <<":">>
        \o Padded(dt[5], 2) \o <<":">> \o Padded(dt[6], 2)

HasUnderscore(s) == \E i \in 1..Len(s) : s[i] = "_"

\* what a column of INTEGER affinity stores for a bound value: text that
\* reads as a number is stored as that number, other text as it is
IntegerAffinity(value) ==
    IF value.k # "str"
    THEN [type |-> "null", m |-> 0, e |-> 0, s |-> <<>>]
    ELSE IF PyFloat(value.s).ok /\ ~HasUnderscore(value.s)
    THEN [type |-> IF PyFloat(value.s).val.e = 0 THEN "integer" ELSE "real",
          m |-> PyFloat(value.s).val.m, e |-> PyFloat(value.s).val.e,
          s |-> <<>>]
    ELSE [type |-> "text", m |-> 0, e |-> 0, s |-> value.s]

\* the row of repair_order that to_sql writes for a record of the frame
OrderRow(order) ==
    [order_id |-> order.order_id, timestamp |-> IsoFormat(order.timestamp),
     status |-> order.status, cost |-> order.cost,
     technician |-> order.technician]

\* the row of repair_order_detail that to_sql writes
DetailRow(detail) ==
    [order_id |-> detail.order_id, part_name |-> detail.part_name,
     quantity |-> IntegerAffinity(detail.quantity)]

\* the store: the tables that exist and the rows of each. order_id is the
\* rowid of repair_order, so its rows are a set; repair_order_detail can hold
\* equal rows more than once (when part_name is NULL) and its rows are a bag.
\* Store takes the detail rows as a set, each held once
Store(tables, orders, details) ==
    [tables |-> tables, repair_order |-> orders,
     repair_order_detail |-> SetToBag(details)]

\* the rows of a table, each once
RowsIn(store, table_name) ==
    IF table_name = "repair_order_detail"
    THEN BagToSet(store.repair_order_detail)
    ELSE store[table_name]

\* fetch_one_row without a row to return
TableCountNoRow(store, table_name) == 0

\* select count(*) from sqlite_master where type='table' and name = ...
TableCount(store, table_name) ==
    IF table_name \in store.tables THEN 1 ELSE 0

\* create table ...
CreateTable(store, table_name) ==
    [store EXCEPT !.tables = @ \cup {table_name}]

\* delete from {table_name}
DeleteFrom(store, table_name) ==
    [store EXCEPT ![table_name] =
        IF table_name = "repair_order_detail" THEN EmptyBag ELSE {}]

\* ResetOrder with the parent table first
ResetOrderParentFirst == <<"repair_order", "repair_order_detail">>

\* the tables create_target_tables empties, in the order of line 130
ResetOrder == <<"repair_order_detail", "repair_order">>

\* primary key (order_id)
OrderKey(row) == <<row.order_id>>

\* primary key (order_id, part_name)
DetailKey(row) == <<row.order_id, row.part_name>>

\* the store after to_sql(repair_order), and whether its primary key lets
\* every row in
OrderRows(frame) == {OrderRow(frame[i]) : i \in DOMAIN frame}

OrderInsertOk(store, frame) ==
    /\ \A i, j \in DOMAIN frame :
           OrderKey(OrderRow(frame[i])) = OrderKey(OrderRow(frame[j])) => i = j
    /\ \A i \in DOMAIN frame : \A row \in store.repair_order :
           OrderKey(row) # OrderKey(OrderRow(frame[i]))

InsertOrders(store, frame) ==
    [store EXCEPT !.repair_order = @ \cup OrderRows(frame)]

\* the same for to_sql(repair_order_detail): the rows written, each as
\* many times as the frame holds it
DetailRows(frame) ==
    [row \in {DetailRow(frame[i]) : i \in DOMAIN frame} |->
        Cardinality({i \in DOMAIN frame : DetailRow(frame[i]) = row})]

\* neither column of the key is NULL: the columns are not declared NOT NULL,
\* and SQLite takes a NULL in such a key to differ from every other value
DetailKeyNotNull(row) == row.part_name.k = "str"

\* two rows that the primary key does not let into the table together
DetailKeyClash(a, b) ==
    DetailKeyNotNull(a) /\ DetailKeyNotNull(b) /\ DetailKey(a) = DetailKey(b)

DetailInsertOk(store, frame) ==
    /\ \A i, j \in DOMAIN frame :
           DetailKeyClash(DetailRow(frame[i]), DetailRow(frame[j])) => i = j
    /\ \A i \in DOMAIN frame :
           \A row \in RowsIn(store, "repair_order_detail") :
           ~DetailKeyClash(row, DetailRow(frame[i]))

InsertDetails(store, frame) ==
    [store EXCEPT !.repair_order_detail = @ (+) DetailRows(frame)]

\* what ~/rht.db may hold when the run connects to it
OldOrder(order_id) ==
    [order_id |-> order_id, timestamp |-> <<"2", "0", "2", "2", "-", "0", "1", "-", "0", "1", " ", "0", "0", ":", "0", "0", ":", "0", "0">>,
     status |-> Str("Received"), cost |-> [m |-> 5, e |-> 0],
     technician |-> Str("Old Hand")]

OldDetail(order_id, part_name) ==
    [order_id |-> order_id, part_name |-> Str(part_name),
     quantity |-> [type |-> "integer", m |-> 9, e |-> 0, s |-> <<>>]]

\* the stores create_target_tables may be called on: neither, either or
\* both tables exist, with or without rows
SchemaStores ==
    {store \in
        {Store(tables, orders, details) :
            tables \in SUBSET {"repair_order", "repair_order_detail"},
            orders \in SUBSET {OldOrder(104), OldOrder(300)},
            details \in SUBSET {OldDetail(104, "Tire"), OldDetail(104, "Wiper"),
                                OldDetail(300, "Tire")}} :
        /\ store.repair_order # {} => "repair_order" \in store.tables
        /\ store.repair_order_detail # EmptyBag
               => "repair_order_detail" \in store.tables}

PriorStores ==
    {Store({}, {}, {}),
     Store({"repair_order"}, {OldOrder(104)}, {}),
     Store({"repair_order", "repair_order_detail"}, {}, {}),
     Store({"repair_order", "repair_order_detail"},
           {OldOrder(104), OldOrder(300)},
           {OldDetail(104, "Tire"), OldDetail(104, "Wiper"),
            OldDetail(300, "Tire")})}

VARIABLES
    pc,                          \* the statement the script is at
    file_list,                   \* the list the for loop of line 159 iterates
    pos,                         \* the index of its next element
    repair_order_dict,           \* order id -> RepairOrder
    repair_order_detail_dict,    \* order id -> list of RepairOrderDetail
    repair_order_df,             \* the frame of header records
    repair_order_detail_df,      \* the frame of detail records
    db,                          \* the store as the connection sees it
    committed,                   \* the store as committed to ~/rht.db
    folder                       \* the directory read_files_from_dir is
                                 \* called on, where a run starts from one

vars ==
    <<pc, file_list, pos, repair_order_dict, repair_order_detail_dict,
      repair_order_df, repair_order_detail_df, db, committed, folder>>

merge_vars == <<repair_order_dict, repair_order_detail_dict>>
frame_vars == <<repair_order_df, repair_order_detail_df>>
loop_vars == <<file_list, pos>>

\* a directory without files
NoFiles == [name \in {} |-> NotXml]

Init ==
    /\ pc = "read"
    /\ file_list = <<>>
    /\ pos = 1
    /\ repair_order_dict = EmptyDict
    /\ repair_order_detail_dict = EmptyDict
    /\ repair_order_df = <<>>
    /\ repair_order_detail_df = <<>>
    /\ db = Store({}, {}, {})
    /\ committed = Store({}, {}, {})
    /\ folder = NoFiles

\* line 159: read_files_from_dir(datafile_location), on the directory dir
ReadFrom(dir) ==
    /\ pc = "read"
    /\ file_list' = read_files_from_dir(dir)
    /\ pc' = "loop"
    /\ UNCHANGED <<pos, merge_vars, frame_vars, db, committed, folder>>

\* --data-dir may name any directory
ReadFiles ==
    /\ pc = "read"
    /\ \E xmls \in SUBSET XmlNames, others \in SUBSET OtherNames :
           /\ Cardinality(xmls) <= MaxFiles
           /\ \E contents \in [xmls -> Documents] :
                  ReadFrom(Folder(xmls, others, contents))

\* one iteration of the for loop, lines 159-196
ProcessFile ==
    /\ pc = "loop"
    /\ pos <= Len(file_list)
    /\ LET parsed == ParseEvent(file_list[pos])
       IN IF parsed.ok
          THEN /\ repair_order_dict' = MergeOrder(repair_order_dict, parsed)
               /\ repair_order_detail_dict' =
                      MergeDetail(repair_order_dict, repair_order_detail_dict,
                                  parsed)
          ELSE UNCHANGED merge_vars
    /\ pos' = pos + 1
    /\ UNCHANGED <<pc, file_list, frame_vars, db, committed, folder>>

\* the loop is over: lines 203-208 build the two frames
BuildFrames ==
    /\ pc = "loop"
    /\ pos > Len(file_list)
    /\ repair_order_df' = OrderFrame(repair_order_dict)
    /\ repair_order_detail_df' = DetailFrame(repair_order_detail_dict)
    /\ file_list' = <<>>
    /\ pos' = 1
    /\ pc' = "connect"
    /\ UNCHANGED <<merge_vars, db, committed, folder>>

\* line 99: the first Database() connects to ~/rht.db, whatever it holds
Connect ==
    /\ pc = "connect"
    /\ \E store \in PriorStores : db' = store /\ committed' = store
    /\ pc' = "check_order"
    /\ UNCHANGED <<loop_vars, merge_vars, frame_vars, folder>>

\* lines 101-114 and 116-128: create the table unless sqlite_master lists
\* it; no transaction is open, so the statement is committed at once.
\* SQLite refuses to create a table that exists: the statement raises
EnsureTable(at, table_name, then) ==
    /\ pc = at
    /\ LET the_count == TableCount(db, table_name)
       IN IF the_count # 0
          THEN pc' = then /\ UNCHANGED <<db, committed>>
          ELSE IF table_name \in db.tables
          THEN pc' = "crashed" /\ db' = committed /\ UNCHANGED committed
          ELSE /\ db' = CreateTable(db, table_name)
               /\ committed' = CreateTable(committed, table_name)
               /\ pc' = then
    /\ UNCHANGED <<loop_vars, merge_vars, frame_vars, folder>>

EnsureOrderTable == EnsureTable("check_order", "repair_order", "check_detail")

EnsureDetailTable ==
    EnsureTable("check_detail", "repair_order_detail", "delete_1")

\* lines 130-131: the delete opens a transaction that stays open; a delete
\* from a table that does not exist raises
Delete(at, i, then) ==
    /\ pc = at
    /\ IF ResetOrder[i] \in db.tables
       THEN db' = DeleteFrom(db, ResetOrder[i]) /\ pc' = then
       ELSE db' = committed /\ pc' = "crashed"
    /\ UNCHANGED <<loop_vars, merge_vars, frame_vars, committed, folder>>

DeleteFirst == Delete("delete_1", 1, "delete_2")

DeleteSecond == Delete("delete_2", 2, "insert_order")

\* execute logs the error and carries on
SchemaFailsSwallowed ==
    /\ pc \in {"check_order", "check_detail", "delete_1", "delete_2"}
    /\ pc' = "insert_order"
    /\ UNCHANGED <<loop_vars, merge_vars, frame_vars, db, committed, folder>>

\* a statement of create_target_tables raises, execute raises it again
\* (base.py line 170): nothing catches it, the script dies and the open
\* transaction is rolled back
SchemaFails ==
    /\ pc \in {"check_order", "check_detail", "delete_1", "delete_2"}
    /\ db' = committed
    /\ pc' = "crashed"
    /\ UNCHANGED <<loop_vars, merge_vars, frame_vars, committed, folder>>

\* to_sql that leaves the commit to its caller
LoadOrdersUncommitted ==
    /\ pc = "insert_order"
    /\ OrderInsertOk(db, repair_order_df)
    /\ db' = InsertOrders(db, repair_order_df)
    /\ pc' = "insert_detail"
    /\ UNCHANGED <<loop_vars, merge_vars, frame_vars, committed, folder>>

\* lines 213-217: to_sql inserts the frame and commits; for a frame
\* without rows it returns at once, and nothing is committed
LoadOrders ==
    /\ pc = "insert_order"
    /\ OrderInsertOk(db, repair_order_df)
    /\ db' = InsertOrders(db, repair_order_df)
    /\ committed' = IF repair_order_df = <<>> THEN committed ELSE db'
    /\ pc' = "insert_detail"
    /\ UNCHANGED <<loop_vars, merge_vars, frame_vars, folder>>

\* lines 218-220: to_sql raises (a key conflict, or the store refuses the
\* statement); it has rolled back, and the script exits with 1
LoadOrdersFails ==
    /\ pc = "insert_order"
    /\ db' = committed
    /\ pc' = "exit_1"
    /\ UNCHANGED <<loop_vars, merge_vars, frame_vars, committed, folder>>

\* lines 222-226: the same for the detail frame; the script then ends, and
\* what the connection has not committed is lost
LoadDetails ==
    /\ pc = "insert_detail"
    /\ DetailInsertOk(db, repair_order_detail_df)
    /\ committed' = IF repair_order_detail_df = <<>> THEN committed
                     ELSE InsertDetails(db, repair_order_detail_df)
    /\ db' = committed'
    /\ pc' = "exit_0"
    /\ UNCHANGED <<loop_vars, merge_vars, frame_vars, folder>>

\* lines 227-229
LoadDetailsFails ==
    /\ pc = "insert_detail"
    /\ db' = committed
    /\ pc' = "exit_1"
    /\ UNCHANGED <<loop_vars, merge_vars, frame_vars, committed, folder>>

Next ==
    \/ ReadFiles
    \/ ProcessFile
    \/ BuildFrames
    \/ Connect
    \/ EnsureOrderTable
    \/ EnsureDetailTable
    \/ DeleteFirst
    \/ DeleteSecond
    \/ SchemaFails
    \/ LoadOrders
    \/ LoadOrdersFails
    \/ LoadDetails
    \/ LoadDetailsFails

Spec == Init /\ [][Next]_vars

\* ------------------------------------------------------------------------
\* create_target_tables called again and again on one connection
\* ------------------------------------------------------------------------

InitSchema ==
    /\ pc = "check_order"
    /\ file_list = <<>>
    /\ pos = 1
    /\ repair_order_dict = EmptyDict
    /\ repair_order_detail_dict = EmptyDict
    /\ repair_order_df = <<>>
    /\ repair_order_detail_df = <<>>
    /\ db \in SchemaStores
    /\ committed = db
    /\ folder = NoFiles

\* create_target_tables has returned, and is called once more
CallAgain ==
    /\ pc = "insert_order"
    /\ pc' = "check_order"
    /\ UNCHANGED <<loop_vars, merge_vars, frame_vars, db, committed, folder>>

NextSchema ==
    \/ EnsureOrderTable
    \/ EnsureDetailTable
    \/ DeleteFirst
    \/ DeleteSecond
    \/ CallAgain

SpecSchema == InitSchema /\ [][NextSchema]_vars

\* ------------------------------------------------------------------------
\* read_files_from_dir called on a given directory
\* ------------------------------------------------------------------------

\* the contents the files of the directory may have
FileContents == {DocA, DocB, DocOther, NotXml}

InitRead ==
    /\ pc = "read"
    /\ file_list = <<>>
    /\ pos = 1
    /\ repair_order_dict = EmptyDict
    /\ repair_order_detail_dict = EmptyDict
    /\ repair_order_df = <<>>
    /\ repair_order_detail_df = <<>>
    /\ db = Store({}, {}, {})
    /\ committed = Store({}, {}, {})
    /\ \E names \in SUBSET (XmlNames \cup OtherNames) :
           folder \in [names -> FileContents]

ReadFolder == ReadFrom(folder)

NextRead == ReadFolder

SpecRead == InitRead /\ [][NextRead]_vars

\* ------------------------------------------------------------------------
\* Properties
\* ------------------------------------------------------------------------

\* what the parse block made of each document the loop has been through,
\* in processing order
Reports ==
    [i \in 1..(IF pc = "loop" THEN pos - 1 ELSE 0) |-> ParseEvent(file_list[i])]

\* the reports r that parsed and are about order_id
ReportsOf(r, order_id) ==
    {i \in DOMAIN r : r[i].ok /\ r[i].order.order_id = order_id}

\* reports i and j parsed and are about the same order
SameOrder(r, i, j) ==
    r[i].ok /\ r[j].ok /\ r[i].order.order_id = r[j].order.order_id

\* the merge state holds the report p, header and detail list
Retained(p) ==
    /\ p.order.order_id \in Keys(repair_order_dict)
    /\ p.order.order_id \in Keys(repair_order_detail_dict)
    /\ Get(repair_order_dict, p.order.order_id) = p.order
    /\ Get(repair_order_detail_dict, p.order.order_id) = p.temp_list

\* C1: for every order_id in the merge state, the retained RepairOrder
\* carries the greatest timestamp among the parsed documents of that order
\* processed so far: its timestamp is one of theirs and none of them has a
\* strictly greater one.
C1_RetainedIsGreatest ==
    pc = "loop" =>
        LET r == Reports
        IN \A order_id \in Keys(repair_order_dict) :
               LET kept == Get(repair_order_dict, order_id).timestamp
                   of == ReportsOf(r, order_id)
               IN /\ \E i \in of : r[i].order.timestamp = kept
                  /\ \A i \in of : ~DatetimeGT(r[i].order.timestamp, kept)

\* an older report of a retained order came after a newer one, and lost
C1_Witness ==
    /\ pc = "loop"
    /\ LET r == Reports
       IN \E i, j \in DOMAIN r :
              /\ i < j
              /\ SameOrder(r, i, j)
              /\ DatetimeGT(r[i].order.timestamp, r[j].order.timestamp)
              /\ Retained(r[i])

\* C2: when parsed documents of one order carry equal timestamps and that
\* timestamp is the greatest of the order, the first of them in processing
\* order is the one retained.
C2_FirstOfTiedRetained ==
    pc = "loop" =>
        LET r == Reports
        IN \A i, j \in DOMAIN r :
               (/\ i < j
                /\ SameOrder(r, i, j)
                /\ r[i].order.timestamp = r[j].order.timestamp
                /\ \A h \in ReportsOf(r, r[i].order.order_id) :
                       /\ ~DatetimeGT(r[h].order.timestamp,
                                      r[i].order.timestamp)
                       /\ r[h].order.timestamp = r[i].order.timestamp
                              => i <= h)
               => Retained(r[i])

\* C3: for every order_id the retained header and the retained detail list
\* are those of one and the same processed document.
C3_WholeRecord ==
    pc = "loop" =>
        LET r == Reports
        IN \A order_id \in
                   Keys(repair_order_dict) \cup Keys(repair_order_detail_dict) :
               \E i \in ReportsOf(r, order_id) : Retained(r[i])

\* a later report replaced an earlier one that differs in header and parts
C3_Witness ==
    /\ pc = "loop"
    /\ LET r == Reports
       IN \E i, j \in DOMAIN r :
              /\ i < j
              /\ SameOrder(r, i, j)
              /\ DatetimeGT(r[j].order.timestamp, r[i].order.timestamp)
              /\ r[i].order.status # r[j].order.status
              /\ r[i].temp_list # r[j].temp_list
              /\ Retained(r[j])

\* C4: every document that parsed and was processed has its order_id in
\* the merge state (the first one of an order is inserted whatever its
\* timestamp).
C4_FirstReportInserted ==
    pc = "loop" =>
        LET r == Reports
        IN \A i \in DOMAIN r :
               r[i].ok => r[i].order.order_id \in Keys(repair_order_dict)

\* the ways of failing to parse that the claim lists
MissingRequiredField(doc) ==
    \/ doc.root # "event"
    \/ doc.order_id.k = "absent"
    \/ doc.date_time.k = "absent"
    \/ doc.status.k = "absent"
    \/ doc.cost.k = "absent"

NonNumericCost(doc) == doc.cost.k = "str" /\ ~PyFloat(doc.cost.s).ok

UnparseableTimestamp(doc) ==
    doc.date_time.k = "str" /\ ~Strptime(doc.date_time.s).ok

MissingTechnician(doc) ==
    doc.repair_details.k = "absent" \/ doc.repair_details.technician.k = "absent"

EmptyOrMalformedParts(doc) ==
    LET rp == doc.repair_details.repair_parts
    IN \/ rp.k # "dict"
       \/ rp.part.k \notin {"dict", "list"}
       \/ \E i \in 1..Len(rp.part.many) :
              \/ rp.part.many[i].name.k = "absent"
              \/ rp.part.many[i].quantity.k = "absent"
       \/ /\ rp.part.k = "dict"
          /\ \/ rp.part.one.name.k = "absent"
             \/ rp.part.one.quantity.k = "absent"

FailsParsing(doc) ==
    \/ MissingRequiredField(doc)
    \/ NonNumericCost(doc)
    \/ UnparseableTimestamp(doc)
    \/ MissingTechnician(doc)
    \/ EmptyOrMalformedParts(doc)

\* C5: a document that fails parsing leaves both mappings of the merge
\* state as they were, and the loop goes on to the next document.
C5_FailedDocumentSkipped ==
    [][(pc = "loop" /\ pos <= Len(file_list) /\ FailsParsing(file_list[pos]))
          => /\ repair_order_dict' = repair_order_dict
             /\ repair_order_detail_dict' = repair_order_detail_dict
             /\ pc' = "loop"
             /\ pos' = pos + 1
             /\ file_list' = file_list]_vars

\* a document failed parsing between two that were retained
C5_Witness ==
    /\ pc = "loop"
    /\ LET r == Reports
       IN \E h, i, j \in DOMAIN r :
              /\ h < i /\ i < j
              /\ FailsParsing(file_list[i])
              /\ r[h].ok /\ Retained(r[h])
              /\ r[j].ok /\ Retained(r[j])
              /\ r[h].order.order_id # r[j].order.order_id

\* a Python value that is an int
IsInt(value) == value.k = "int"

\* the text of an attribute reads as an integer
IntegerValued(value) == value.k = "str" /\ PyInt(value.s).ok

\* a part of the document has a quantity that is not integer-valued text
HasNonIntegerQuantity(doc) ==
    LET parts == PartsList(doc.repair_details.repair_parts.part)
    IN \E p \in DOMAIN parts : ~IntegerValued(parts[p].quantity)

\* C6: every RepairOrderDetail in the merge state holds an integer
\* quantity, and no document with a quantity that is not integer-valued text
\* is retained.
C6_QuantityIsInteger ==
    /\ \A order_id \in Keys(repair_order_detail_dict) :
           \A i \in DOMAIN Get(repair_order_detail_dict, order_id) :
               IsInt(Get(repair_order_detail_dict, order_id)[i].quantity)
    /\ LET r == Reports
       IN \A i \in DOMAIN r :
              r[i].ok /\ HasNonIntegerQuantity(file_list[i]) => ~Retained(r[i])

\* C7: every RepairOrder of the merge state, and every row of the
\* repair_order table, has a status of the Status enumeration.
C7_StatusInEnumeration ==
    /\ \A order_id \in Keys(repair_order_dict) :
           /\ Get(repair_order_dict, order_id).status.k = "str"
           /\ Get(repair_order_dict, order_id).status.s \in Status
    /\ \A row \in db.repair_order \cup committed.repair_order :
           row.status.k = "str" /\ row.status.s \in Status

\* C8: in the merge state handed to the loader no order's detail list has
\* two entries with the same part_name, and the detail frame offers no
\* (order_id, part_name) twice.
C8_PartNameUniquePerOrder ==
    pc \in {"connect", "check_order", "check_detail", "delete_1", "delete_2",
            "insert_order", "insert_detail"} =>
        /\ \A order_id \in Keys(repair_order_detail_dict) :
               LET lines == Get(repair_order_detail_dict, order_id)
               IN \A i, j \in DOMAIN lines :
                      lines[i].part_name = lines[j].part_name => i = j
        /\ \A i, j \in DOMAIN repair_order_detail_df :
               (/\ repair_order_detail_df[i].order_id
                       = repair_order_detail_df[j].order_id
                /\ repair_order_detail_df[i].part_name
                       = repair_order_detail_df[j].part_name)
               => i = j

\* C9: the order_ids with a detail list are those with a RepairOrder, each
\* order_id has one RepairOrder, stored under its own order_id, and every
\* RepairOrderDetail carries the order_id it is stored under.
C9_HeaderAndDetailKeysAgree ==
    /\ Keys(repair_order_detail_dict) = Keys(repair_order_dict)
    /\ \A i, j \in DOMAIN repair_order_dict :
           repair_order_dict[i][1] = repair_order_dict[j][1] => i = j
    /\ \A i, j \in DOMAIN repair_order_detail_dict :
           repair_order_detail_dict[i][1] = repair_order_detail_dict[j][1]
               => i = j
    /\ \A i \in DOMAIN repair_order_dict :
           repair_order_dict[i][2].order_id = repair_order_dict[i][1]
    /\ \A i \in DOMAIN repair_order_detail_dict :
           \A n \in DOMAIN repair_order_detail_dict[i][2] :
               repair_order_detail_dict[i][2][n].order_id
                   = repair_order_detail_dict[i][1]

\* two orders are held, one of them after a replacement
C9_Witness ==
    /\ pc = "loop"
    /\ Cardinality(Keys(repair_order_dict)) = 2
    /\ LET r == Reports
       IN \E i, j \in DOMAIN r :
              /\ i < j
              /\ SameOrder(r, i, j)
              /\ DatetimeGT(r[j].order.timestamp, r[i].order.timestamp)
              /\ Retained(r[j])

\* foreign key (order_id) references repair_order(order_id)
ForeignKeyHolds(store) ==
    \A detail \in RowsIn(store, "repair_order_detail") :
        \E order \in store.repair_order : order.order_id = detail.order_id

\* C10: at every point of reset and load every row of repair_order_detail
\* references a row of repair_order, in the store as the connection sees it
\* and as it is committed.
C10_ForeignKeyThroughout ==
    ForeignKeyHolds(db) /\ ForeignKeyHolds(committed)

\* half way through the reset of a store that held details
C10_Witness ==
    /\ pc = "delete_2"
    /\ committed.repair_order_detail # EmptyBag
    /\ db.repair_order_detail = EmptyBag
    /\ db.repair_order # {}

\* the rows the header and detail records of the merge state are written as
MergedOrderRows ==
    {OrderRow(Get(repair_order_dict, order_id)) :
        order_id \in Keys(repair_order_dict)}

MergedDetailRows ==
    UNION {{DetailRow(Get(repair_order_detail_dict, order_id)[n]) :
               n \in DOMAIN Get(repair_order_detail_dict, order_id)} :
           order_id \in Keys(repair_order_detail_dict)}

RECURSIVE MergedDetailCount(_)
MergedDetailCount(details) ==
    IF details = <<>> THEN 0
    ELSE Len(Head(details)[2]) + MergedDetailCount(Tail(details))

\* C11: whatever the two tables held, a run that ends with exit code 0
\* leaves in repair_order one row per order_id of the final merge state and
\* in repair_order_detail the retained detail lines of that state, nothing
\* else; and the store is not touched while documents are still being
\* processed.
C11_FullReload ==
    /\ pc \in {"read", "loop"} =>
           db = Store({}, {}, {}) /\ committed = Store({}, {}, {})
    /\ pc = "exit_0" =>
           /\ committed = db
           /\ db.tables = {"repair_order", "repair_order_detail"}
           /\ db.repair_order = MergedOrderRows
           /\ {row.order_id : row \in db.repair_order}
                  = Keys(repair_order_dict)
           /\ Cardinality(db.repair_order)
                  = Cardinality(Keys(repair_order_dict))
           /\ BagToSet(db.repair_order_detail) = MergedDetailRows
           /\ BagCardinality(db.repair_order_detail)
                  = MergedDetailCount(repair_order_detail_dict)

\* C12: when the insert into repair_order fails, the run ends at once with
\* exit code 1, the insert into repair_order_detail is not attempted, and
\* repair_order_detail holds no rows.
C12_HeaderFailureLeavesNoDetail ==
    [][/\ (pc = "insert_order" /\ pc' \notin {"insert_order", "insert_detail"})
           => /\ pc' = "exit_1"
              /\ db'.repair_order_detail = EmptyBag
              /\ committed'.repair_order_detail = EmptyBag
       /\ pc = "exit_1" => pc' = "exit_1"]_vars

\* C13: when the insert into repair_order_detail fails after the insert
\* into repair_order succeeded, the run ends with exit code 1 and the header
\* rows of the final merge state stay committed in repair_order, without
\* any of its detail lines; the run ends with exit code 0 only from a
\* successful detail insert that follows a successful header insert.
C13_DetailFailureKeepsHeaders ==
    [][/\ (pc = "insert_detail" /\ pc' \notin {"insert_detail", "exit_0"})
           => /\ pc' = "exit_1"
              /\ MergedOrderRows \subseteq committed'.repair_order
              /\ MergedOrderRows \subseteq db'.repair_order
              /\ MergedDetailRows
                     \cap BagToSet(committed'.repair_order_detail) = {}
       /\ (pc' = "insert_detail" /\ pc # "insert_detail")
           => /\ pc = "insert_order"
              /\ OrderInsertOk(db, repair_order_df)
              /\ MergedOrderRows \subseteq committed'.repair_order
       /\ (pc' = "exit_0" /\ pc # "exit_0")
           => /\ pc = "insert_detail"
              /\ DetailInsertOk(db, repair_order_detail_df)
              /\ MergedOrderRows \subseteq committed'.repair_order
              /\ MergedDetailRows
                     \subseteq BagToSet(committed'.repair_order_detail)]_vars

\* the run ended with exit code 1 with the headers of two orders committed
\* and none of their detail lines
C13_Witness ==
    /\ pc = "exit_1"
    /\ Cardinality(Keys(repair_order_dict)) = 2
    /\ committed.repair_order = MergedOrderRows
    /\ repair_order_detail_df # <<>>
    /\ committed.repair_order_detail = EmptyBag

\* the statements of create_target_tables, and the one that follows each
SchemaStatements == {"check_order", "check_detail", "delete_1", "delete_2"}

StatementAfter(at) ==
    CASE at = "check_order" -> "check_detail"
      [] at = "check_detail" -> "delete_1"
      [] at = "delete_1" -> "delete_2"
      [] at = "delete_2" -> "insert_order"

\* C14: a statement of create_target_tables that raises ends the run, with
\* a non-zero outcome: the run never goes on past a statement that did not
\* take effect, an insert is attempted only after the last statement of
\* create_target_tables succeeded, and a run that ended this way does
\* nothing more.
C14_SchemaFailureIsFatal ==
    [][/\ (pc \in SchemaStatements /\ pc' # pc)
           => pc' \in {StatementAfter(pc), "crashed"}
       /\ (pc \in {"delete_1", "delete_2"} /\ pc' = StatementAfter(pc))
           => RowsIn(db', ResetOrder[IF pc = "delete_1" THEN 1 ELSE 2]) = {}
       /\ (pc' = "insert_order" /\ pc # "insert_order") => pc = "delete_2"
       /\ pc = "crashed"
           => pc' = "crashed" /\ db' = db /\ committed' = committed]_vars

\* the reset of a store that held rows failed: the run is over, nothing of
\* the merge state was written and the rows are still there
C14_Witness ==
    /\ pc = "crashed"
    /\ repair_order_df # <<>>
    /\ committed.repair_order_detail # EmptyBag
    /\ db = committed

\* the table a check of create_target_tables is about
CheckedTable(at) ==
    IF at = "check_order" THEN "repair_order" ELSE "repair_order_detail"

\* C15: create_target_tables, called any number of times in a row on a
\* store where neither, either or both tables exist, never raises, creates
\* a table only where it is absent and leaves an existing one alone, and
\* returns with exactly the tables repair_order and repair_order_detail
\* existing, both empty for the connection.
C15_SchemaCreationIdempotent ==
    /\ [](/\ pc # "crashed"
          /\ pc = "insert_order" =>
                 /\ db.tables = {"repair_order", "repair_order_detail"}
                 /\ committed.tables = {"repair_order", "repair_order_detail"}
                 /\ db.repair_order = {}
                 /\ db.repair_order_detail = EmptyBag)
    /\ [][(pc \in {"check_order", "check_detail"} /\ pc' # pc) =>
              IF CheckedTable(pc) \in db.tables
              THEN db' = db /\ committed' = committed
              ELSE /\ db'.tables = db.tables \cup {CheckedTable(pc)}
                   /\ committed'.tables = db'.tables
                   /\ RowsIn(db', CheckedTable(pc)) = {}]_vars

\* a second or later call, half way through its reset, on a store whose
\* rows the first call deleted
C15_Witness ==
    /\ pc = "delete_2"
    /\ db.tables = {"repair_order", "repair_order_detail"}
    /\ db.repair_order = {}
    /\ committed.repair_order # {}

\* the name ends in .xml
HasXmlExtension(name) ==
    /\ Len(name) >= 4
    /\ SubSeq(name, Len(name) - 3, Len(name)) = <<".", "x", "m", "l">>

\* the files of the directory dir with the .xml extension
XmlFilesOf(dir) == {name \in DOMAIN dir : HasXmlExtension(name)}

\* the place of name among the .xml files of dir in ascending order
PlaceOf(dir, name) ==
    1 + Cardinality({other \in XmlFilesOf(dir) : TextLT(other, name)})

\* C16: read_files_from_dir returns one content per file of the directory
\* with the .xml extension and nothing for the other files, in ascending
\* lexicographic order of the file names.
C16_XmlFilesInNameOrder ==
    pc = "loop" =>
        /\ Len(file_list) = Cardinality(XmlFilesOf(folder))
        /\ \A name \in XmlFilesOf(folder) :
               file_list[PlaceOf(folder, name)] = folder[name]

\* a directory with three .xml files of different contents, whose name
\* order is not the order of their contents, and two other files
C16_Witness ==
    /\ pc = "loop"
    /\ Len(file_list) = 3
    /\ Cardinality(DOMAIN folder) = 5
    /\ file_list[1] # file_list[2]
    /\ file_list[2] # file_list[3]
    /\ file_list[1] # file_list[3]

\* the merge state after the reports r, processed in the order of the
\* sequence of indices order, starting from the state merged
RECURSIVE MergeInOrder(_, _, _)
MergeInOrder(r, order, merged) ==
    IF order = <<>> THEN merged
    ELSE LET parsed == r[Head(order)]
         IN MergeInOrder(r, Tail(order),
                IF parsed.ok
                THEN <<MergeOrder(merged[1], parsed),
                       MergeDetail(merged[1], merged[2], parsed)>>
                ELSE merged)

\* the orders in which n documents can be processed
ProcessingOrders(n) ==
    {order \in [1..n -> 1..n] :
        \A i, j \in 1..n : order[i] = order[j] => i = j}

\* two merge states hold the same value for the same keys
SameMapping(a, b) ==
    /\ Keys(a) = Keys(b)
    /\ \A key \in Keys(a) : Get(a, key) = Get(b, key)

\* the parsed reports of one order carry pairwise distinct timestamps, none
\* of them the earliest possible date
DistinctTimestamps(r) ==
    /\ \A i \in DOMAIN r : r[i].ok => r[i].order.timestamp # EarliestDate
    /\ \A i, j \in DOMAIN r :
           (i # j /\ SameOrder(r, i, j))
               => r[i].order.timestamp # r[j].order.timestamp

\* C17: when the parsed documents of every order carry pairwise distinct
\* timestamps, none of them the earliest possible date, the merge state at
\* the end of the loop is the one every other processing order of the same
\* documents ends with.
C17_OrderOfProcessingIrrelevant ==
    (pc = "loop" /\ pos > Len(file_list)) =>
        LET r == Reports
        IN DistinctTimestamps(r) =>
               \A order \in ProcessingOrders(Len(r)) :
                   LET merged == MergeInOrder(r, order, <<EmptyDict, EmptyDict>>)
                   IN /\ SameMapping(merged[1], repair_order_dict)
                      /\ SameMapping(merged[2], repair_order_detail_dict)

\* three documents were processed, two of one order with the newer one
\* first, and one of another order
C17_Witness ==
    /\ pc = "loop"
    /\ pos > Len(file_list)
    /\ Len(file_list) = 3
    /\ LET r == Reports
       IN /\ DistinctTimestamps(r)
          /\ \A i \in DOMAIN r : r[i].ok
          /\ Cardinality(Keys(repair_order_dict)) = 2
          /\ \E i, j \in DOMAIN r :
                 /\ i < j
                 /\ SameOrder(r, i, j)
                 /\ DatetimeGT(r[i].order.timestamp, r[j].order.timestamp)

\* C18: from one step of the run to the next no order_id leaves the merge
\* state, and the record held for an order_id is either left as it is or
\* replaced by one with a strictly greater timestamp.
C18_MergeStateGrowsAndAdvances ==
    [][/\ Keys(repair_order_dict) \subseteq Keys(repair_order_dict')
       /\ Keys(repair_order_detail_dict)
              \subseteq Keys(repair_order_detail_dict')
       /\ \A order_id \in Keys(repair_order_dict) :
              LET before == Get(repair_order_dict, order_id)
                  after == Get(repair_order_dict', order_id)
              IN IF /\ after = before
                    /\ Get(repair_order_detail_dict', order_id)
                           = Get(repair_order_detail_dict, order_id)
                 THEN after.timestamp = before.timestamp
                 ELSE DatetimeGT(after.timestamp, before.timestamp)]_vars

\* three reports of one order were processed: the second replaced the
\* first, the third was older than the second and changed nothing
C18_Witness ==
    /\ pc = "loop"
    /\ LET r == Reports
       IN \E h, i, j \in DOMAIN r :
              /\ h < i /\ i < j
              /\ SameOrder(r, h, i) /\ SameOrder(r, i, j)
              /\ DatetimeGT(r[i].order.timestamp, r[h].order.timestamp)
              /\ DatetimeGT(r[i].order.timestamp, r[j].order.timestamp)
              /\ Retained(r[i])

\* the document again is a duplicate of the document first: the same
\* document, or a report of the same order with the same timestamp
DuplicateOf(first, again) ==
    \/ first = again
    \/ /\ ParseEvent(first).ok
       /\ ParseEvent(again).ok
       /\ ParseEvent(first).order.order_id = ParseEvent(again).order.order_id
       /\ ParseEvent(first).order.timestamp = ParseEvent(again).order.timestamp

\* C19: processing a document that duplicates one processed earlier in the
\* run, at whatever distance, leaves both mappings of the merge state as
\* they were.
C19_DuplicateReportIsNoOp ==
    [][(/\ pc = "loop"
        /\ pos <= Len(file_list)
        /\ \E i \in 1..(pos - 1) : DuplicateOf(file_list[i], file_list[pos]))
          => /\ repair_order_dict' = repair_order_dict
             /\ repair_order_detail_dict' = repair_order_detail_dict]_vars

\* a retained report came again after a report of another order
C19_Witness ==
    /\ pc = "loop"
    /\ LET r == Reports
       IN \E i, j \in DOMAIN r :
              /\ i + 1 < j
              /\ file_list[i] = file_list[j]
              /\ r[i].ok
              /\ r[i + 1].ok
              /\ ~SameOrder(r, i, i + 1)
              /\ Retained(r[i])
              /\ Retained(r[i + 1])
====
